---- MODULE Spec2Model ----
(***************************************************************************)
(* A model of gdrive.py: the DriveFolder and Spreadsheet wrappers around   *)
(* the remote Drive and Sheets APIs.                                       *)
(*                                                                         *)
(* Python strings are sequences of one-character strings, so that a label  *)
(* can be decoded character by character.  A finished call is recorded in  *)
(* call (the operation and its arguments), ret (what came out of it: a     *)
(* returned value or a raised exception) and reqs (the remote requests it  *)
(* issued, in order).                                                      *)
(***************************************************************************)
EXTENDS Integers, Sequences, FiniteSets, TLC

VARIABLES
    call,      \* the last public operation called, with its arguments
    ret,       \* its outcome: [kind |-> "return", value |-> ...] or
               \*              [kind |-> "raise", exc |-> ...]
    reqs,      \* the remote requests the last call issued, in order
    sheets,    \* Spreadsheet.sheets, the metadata snapshot of __init__
    remote,    \* the remote Drive: file id -> [name, folder, parents]
    nodes      \* the DriveFolder objects: handle -> [id, name, parent, children]

vars == <<call, ret, reqs, sheets, remote, nodes>>

\* an Optional value: None, or Some(v) whose value is Some(v)[1]
None == << >>

Some(v) == << v >>

Return(v) == [kind |-> "return", value |-> v]

Raise(e) == [kind |-> "raise", exc |-> e]

HttpError == "HttpError"

\* a request as logged in reqs, with what execute() answered
Exchange(request, response) ==
    [request |-> request, ok |-> TRUE, response |-> response]

\* a request as logged in reqs, whose execute() raised HttpError
Failed(request) == [request |-> request, ok |-> FALSE, response |-> HttpError]

(***************************************************************************)
(* Bounds of the model.                                                    *)
(***************************************************************************)
MaxCol == 730

MaxRow == 10

MaxRangeCol == 27

MaxGridRows == 2

MaxGridCols == 3

MaxStart == 3

(***************************************************************************)
(* Python built-ins.                                                       *)
(***************************************************************************)
AsciiFrom65 ==
    << "A", "B", "C", "D", "E", "F", "G", "H", "I", "J", "K", "L", "M",
       "N", "O", "P", "Q", "R", "S", "T", "U", "V", "W", "X", "Y", "Z",
       "[", "\\", "]", "^", "_" >>

\* chr(code) for the codes 65..95
chr(code) == AsciiFrom65[code - 64]

Digits == << "0", "1", "2", "3", "4", "5", "6", "7", "8", "9" >>

\* str(n) of a non-negative int: its decimal digits
RECURSIVE str(_)
str(n) ==
    IF n < 10 THEN << Digits[n + 1] >>
    ELSE str(n \div 10) \o << Digits[(n % 10) + 1] >>

(***************************************************************************)
(* Spreadsheet.col_num_to_letter                                           *)
(***************************************************************************)
start == 0

\* the while loop and the final append; int((num - start) / 26) of a
\* non-negative num is the floor of the quotient
RECURSIVE col_loop(_, _)
col_loop(num, letter) ==
    IF num > 25 + start
    THEN col_loop(num - ((num - start) \div 26) * 26,
                  Append(letter, chr(65 + ((num - start) \div 26) - 1)))
    ELSE Append(letter, chr(65 - start + num))

\* a loop that stops one column late
col_num_to_letter_late(num) ==
    IF num > 26 + start
    THEN col_loop(num - ((num - start) \div 26) * 26,
                  << chr(65 + ((num - start) \div 26) - 1) >>)
    ELSE << chr(65 - start + num) >>

col_num_to_letter(num) == col_loop(num, << >>)

(***************************************************************************)
(* Spreadsheet.sheets_range.  A cell range is <<start, end>>, each a       *)
(* <<row, col>> pair; Python's start[0], start[1] are start[1], start[2].  *)
(***************************************************************************)
\* the row and the column of each cell exchanged
sheets_range_swapped(cell_range) ==
    LET start_cell == cell_range[1]
        end_cell   == cell_range[2]
    IN  IF ~(start_cell[1] <= end_cell[1]) THEN Raise("AssertionError")
        ELSE IF ~(start_cell[2] <= end_cell[2]) THEN Raise("AssertionError")
        ELSE Return(col_num_to_letter(start_cell[1]) \o str(start_cell[2] + 1)
                    \o << ":" >> \o
                    col_num_to_letter(end_cell[1]) \o str(end_cell[2] + 1))

\* only the rows are asserted
sheets_range_rows_only(cell_range) ==
    LET start_cell == cell_range[1]
        end_cell   == cell_range[2]
    IN  IF ~(start_cell[1] <= end_cell[1]) THEN Raise("AssertionError")
        ELSE Return(col_num_to_letter(start_cell[2]) \o str(start_cell[1] + 1)
                    \o << ":" >> \o
                    col_num_to_letter(end_cell[2]) \o str(end_cell[1] + 1))

sheets_range(cell_range) ==
    LET start_cell == cell_range[1]
        end_cell   == cell_range[2]
    IN  IF ~(start_cell[1] <= end_cell[1]) THEN Raise("AssertionError")
        ELSE IF ~(start_cell[2] <= end_cell[2]) THEN Raise("AssertionError")
        ELSE LET start_name == col_num_to_letter(start_cell[2])
                                   \o str(start_cell[1] + 1)
                 end_name   == col_num_to_letter(end_cell[2])
                                   \o str(end_cell[1] + 1)
             IN  Return(start_name \o << ":" >> \o end_name)

(***************************************************************************)
(* The remote Sheets API.  A request is a record; execute() of a request   *)
(* either answers or raises HttpError, which the caller of the model's     *)
(* operators decides (the argument fails).                                 *)
(***************************************************************************)
EmptyMap == [x \in {} |-> None]

SheetNames == { << "S" >>, << "T", "2" >> }

\* the 'sheets' entries spreadsheets().get answers with
RemoteSheets ==
    << [title |-> << "S" >>, sheetId |-> 0, rowCount |-> 1000, columnCount |-> 26],
       [title |-> << "T", "2" >>, sheetId |-> 7, rowCount |-> 50, columnCount |-> 5] >>

\* values: a grid of nr rows of nc cells
Grid(nr, nc) == [i \in 1..nr |-> [j \in 1..nc |-> "v"]]

(***************************************************************************)
(* Spreadsheet.__init__: the metadata fetch; on HttpError the object is    *)
(* built with no sheets.                                                   *)
(***************************************************************************)
Spreadsheet_init(fails) ==
    IF fails THEN EmptyMap
    ELSE [n \in {RemoteSheets[i].title : i \in DOMAIN RemoteSheets} |->
            LET sheet == CHOOSE s \in {RemoteSheets[i] : i \in DOMAIN RemoteSheets} :
                            s.title = n
            IN  [id |-> sheet.sheetId,
                 shape |-> << sheet.rowCount, sheet.columnCount >>]]

(***************************************************************************)
(* Spreadsheet.read_sheet: cell_range is << >> (the whole sheet) or a cell *)
(* range.                                                                  *)
(***************************************************************************)
read_sheet(sheet_name, cell_range, fails) ==
    LET quoted == << "'" >> \o sheet_name \o << "'" >>
        rng    == IF cell_range # << >> THEN sheets_range(cell_range)
                  ELSE Return(<< >>)
    IN  IF rng.kind = "raise" THEN [ret |-> rng, reqs |-> << >>]
        ELSE LET range_name == IF cell_range # << >>
                               THEN quoted \o << "!" >> \o rng.value
                               ELSE quoted
                 request == [api |-> "values.get", range |-> range_name]
             IN  IF fails
                 THEN [ret |-> Return(HttpError), reqs |-> << Failed(request) >>]
                 ELSE [ret |-> Return("values"),
                       reqs |-> << Exchange(request, "values") >>]

(***************************************************************************)
(* Spreadsheet.write_to_sheet                                              *)
(***************************************************************************)
\* end_cell as line 462 computes it: both coordinates from start_cell[0]
write_end_cell(values, start_cell) ==
    << start_cell[1] + Len(values) - 1, start_cell[1] + Len(values[1]) - 1 >>

write_to_sheet(sheet_name, values, start_cell, fails) ==
    IF Len(values) = 0 THEN [ret |-> Raise("IndexError"), reqs |-> << >>]
    ELSE
    LET end_cell == write_end_cell(values, start_cell)
        rng      == sheets_range(<< start_cell, end_cell >>)
    IN  IF rng.kind = "raise" THEN [ret |-> rng, reqs |-> << >>]
        ELSE LET range_name == << "'" >> \o sheet_name \o << "'", "!" >>
                                   \o rng.value
                 request == [api |-> "values.update", range |-> range_name,
                             valueInputOption |-> "USER_ENTERED",
                             body |-> values]
             IN  IF fails
                 THEN [ret |-> Return(HttpError), reqs |-> << Failed(request) >>]
                 ELSE [ret |-> Return("response"),
                       reqs |-> << Exchange(request, "response") >>]

(***************************************************************************)
(* Spreadsheet.append_to_sheet                                             *)
(***************************************************************************)
append_to_sheet(sheet_name, values, fails) ==
    LET request == [api |-> "values.append", range |-> sheet_name,
                    valueInputOption |-> "USER_ENTERED", body |-> values]
    IN  IF fails
        THEN [ret |-> Return(HttpError), reqs |-> << Failed(request) >>]
        ELSE [ret |-> Return("response"),
              reqs |-> << Exchange(request, "response") >>]

(***************************************************************************)
(* The Spreadsheet operations as actions.  A behaviour is one call: Init   *)
(* draws the call and its arguments (fails: whether the remote request the *)
(* call issues raises HttpError), the call's action runs it.               *)
(***************************************************************************)
Pending == [kind |-> "pending"]

NoDrive == UNCHANGED << remote, nodes >>

CellRanges(maxRow, maxCol) ==
    { << << r1, c1 >>, << r2, c2 >> >> :
        r1 \in 0..maxRow, c1 \in 0..maxCol, r2 \in 0..maxRow, c2 \in 0..maxCol }

Grids == { Grid(nr, nc) : nr \in 0..MaxGridRows, nc \in 1..MaxGridCols }

SheetCalls ==
    [op : {"Spreadsheet"}, fails : BOOLEAN]
    \cup [op : {"col_num_to_letter"}, num : 0..MaxCol]
    \cup [op : {"sheets_range"}, cell_range : CellRanges(MaxRow, MaxRangeCol)]
    \cup [op : {"read_sheet"}, sheet_name : SheetNames,
          cell_range : { << >> } \cup CellRanges(MaxGridRows, MaxGridRows),
          fails : BOOLEAN]
    \cup [op : {"write_to_sheet"}, sheet_name : SheetNames, values : Grids,
          start_cell : (0..MaxStart) \X (0..MaxStart), fails : BOOLEAN]
    \cup [op : {"append_to_sheet"}, sheet_name : SheetNames, values : Grids,
          fails : BOOLEAN]

SheetInit ==
    /\ call \in SheetCalls
    /\ ret = Pending
    /\ reqs = << >>
    /\ sheets = EmptyMap
    /\ remote = EmptyMap
    /\ nodes = << >>

SpreadsheetInit ==
    /\ call.op = "Spreadsheet" /\ ret = Pending
    /\ sheets' = Spreadsheet_init(call.fails)
    /\ ret' = Return("Spreadsheet")
    /\ reqs' = << IF call.fails THEN Failed([api |-> "spreadsheets.get"])
                  ELSE Exchange([api |-> "spreadsheets.get"], RemoteSheets) >>
    /\ UNCHANGED call
    /\ NoDrive

ColNumToLetter ==
    /\ call.op = "col_num_to_letter" /\ ret = Pending
    /\ ret' = Return(col_num_to_letter(call.num))
    /\ UNCHANGED << call, reqs, sheets >>
    /\ NoDrive

SheetsRange ==
    /\ call.op = "sheets_range" /\ ret = Pending
    /\ ret' = sheets_range(call.cell_range)
    /\ UNCHANGED << call, reqs, sheets >>
    /\ NoDrive

ReadSheet ==
    /\ call.op = "read_sheet" /\ ret = Pending
    /\ LET out == read_sheet(call.sheet_name, call.cell_range, call.fails)
       IN  ret' = out.ret /\ reqs' = out.reqs
    /\ UNCHANGED << call, sheets >>
    /\ NoDrive

WriteToSheet ==
    /\ call.op = "write_to_sheet" /\ ret = Pending
    /\ LET out == write_to_sheet(call.sheet_name, call.values,
                                 call.start_cell, call.fails)
       IN  ret' = out.ret /\ reqs' = out.reqs
    /\ UNCHANGED << call, sheets >>
    /\ NoDrive

AppendToSheet ==
    /\ call.op = "append_to_sheet" /\ ret = Pending
    /\ LET out == append_to_sheet(call.sheet_name, call.values, call.fails)
       IN  ret' = out.ret /\ reqs' = out.reqs
    /\ UNCHANGED << call, sheets >>
    /\ NoDrive

SheetNext ==
    \/ SpreadsheetInit
    \/ ColNumToLetter
    \/ SheetsRange
    \/ ReadSheet
    \/ WriteToSheet
    \/ AppendToSheet

SheetSpec == SheetInit /\ [][SheetNext]_vars

(***************************************************************************)
(* Properties of the address arithmetic, checked under SheetSpec.          *)
(***************************************************************************)
Done(op) == call.op = op /\ ret # Pending

Letters == { AsciiFrom65[i] : i \in 1..26 }

AllLetters(s) == \A i \in DOMAIN s : s[i] \in Letters

\* the digit 1..26 a letter stands for
LetterDigit(ch) == CHOOSE i \in 1..26 : AsciiFrom65[i] = ch

\* the inverse bijective base-26 mapping: "A" -> 0, "Z" -> 25, "AA" -> 26
RECURSIVE DecodeDigits(_)
DecodeDigits(s) ==
    IF s = << >> THEN 0
    ELSE DecodeDigits(SubSeq(s, 1, Len(s) - 1)) * 26 + LetterDigit(s[Len(s)])

Decode(s) == DecodeDigits(s) - 1

KnownLabels ==
    { << 0, << "A" >> >>, << 25, << "Z" >> >>, << 26, << "A", "A" >> >>,
      << 27, << "A", "B" >> >>, << 51, << "A", "Z" >> >>,
      << 52, << "B", "A" >> >>, << 701, << "Z", "Z" >> >>,
      << 702, << "A", "A", "A" >> >> }

\* C1: for every n >= 0, col_num_to_letter(n) is the bijective base-26 label
\* of n: it is made of letters, decodes back to n, and 0, 25, 26, 27, 51, 52,
\* 701, 702 give "A", "Z", "AA", "AB", "AZ", "BA", "ZZ", "AAA".
C1_LabelDecodesToNum ==
    Done("col_num_to_letter") =>
        /\ AllLetters(ret.value)
        /\ Decode(ret.value) = call.num
        /\ \A k \in KnownLabels : call.num = k[1] => ret.value = k[2]

\* C2: for n in 0..25 the label has one character, for n in 26..701 two; every
\* character is a letter A..Z; distinct n in 0..701 have distinct labels.
C2_LabelLengthAndDistinct ==
    (Done("col_num_to_letter") /\ call.num <= 701) =>
        /\ Len(ret.value) = (IF call.num <= 25 THEN 1 ELSE 2)
        /\ AllLetters(ret.value)
        /\ \A m \in 0..701 :
              col_num_to_letter(m) = ret.value => m = call.num

C2_Witness ==
    /\ Done("col_num_to_letter")
    /\ call.num = 701
    /\ ret.value = << "Z", "Z" >>

\* C3: for a cell range ((r1,c1),(r2,c2)) with r1 <= r2 and c1 <= c2,
\* sheets_range returns col_num_to_letter(c1) + str(r1+1) + ":" +
\* col_num_to_letter(c2) + str(r2+1); ((0,0),(0,0)) gives "A1:A1" and
\* ((0,0),(3,4)) gives "A1:E4".
C3_RangeString ==
    Done("sheets_range") =>
        LET r1 == call.cell_range[1][1]
            c1 == call.cell_range[1][2]
            r2 == call.cell_range[2][1]
            c2 == call.cell_range[2][2]
        IN  (r1 <= r2 /\ c1 <= c2) =>
              /\ ret.kind = "return"
              /\ ret.value = col_num_to_letter(c1) \o str(r1 + 1) \o << ":" >>
                               \o col_num_to_letter(c2) \o str(r2 + 1)
              /\ call.cell_range = << << 0, 0 >>, << 0, 0 >> >>
                    => ret.value = << "A", "1", ":", "A", "1" >>
              /\ call.cell_range = << << 0, 0 >>, << 3, 4 >> >>
                    => ret.value = << "A", "1", ":", "E", "4" >>

C3_Witness ==
    /\ Done("sheets_range")
    /\ call.cell_range = << << 0, 0 >>, << 3, 4 >> >>
    /\ ret = Return(<< "A", "1", ":", "E", "4" >>)

\* C4: sheets_range raises AssertionError (and returns no string) exactly for
\* the cell ranges with start row > end row or start column > end column.
C4_RejectsExactlyInverted ==
    Done("sheets_range") =>
        LET r1 == call.cell_range[1][1]
            c1 == call.cell_range[1][2]
            r2 == call.cell_range[2][1]
            c2 == call.cell_range[2][2]
        IN  /\ (r1 > r2 \/ c1 > c2) <=> ret = Raise("AssertionError")
            /\ (r1 <= r2 /\ c1 <= c2) <=> ret.kind = "return"

C4_Witness ==
    /\ Done("sheets_range")
    /\ call.cell_range = << << 1, 5 >>, << 2, 4 >> >>
    /\ ret = Raise("AssertionError")

\* the range string of the cells (r, c) .. (r + rows - 1, c + cols - 1) of a sheet
CoveringRange(sheet_name, r, c, rows, cols) ==
    << "'" >> \o sheet_name \o << "'", "!" >>
        \o col_num_to_letter(c) \o str(r + 1) \o << ":" >>
        \o col_num_to_letter(c + cols - 1) \o str(r + rows)

\* C5: for a non-empty rectangular grid and a start cell (r, c), the range
\* write_to_sheet sends in its update request starts at (r, c) and spans
\* len(values) rows and len(values[0]) columns.
C5_WriteRangeCoversValues ==
    (Done("write_to_sheet") /\ Len(call.values) > 0) =>
        /\ Len(reqs) = 1
        /\ reqs[1].request.api = "values.update"
        /\ reqs[1].request.range =
              CoveringRange(call.sheet_name, call.start_cell[1],
                            call.start_cell[2], Len(call.values),
                            Len(call.values[1]))

(***************************************************************************)
(* The remote Drive.  remote maps each file id to its name, its MIME type  *)
(* and the set of its parents' ids.  Ids are handed out in increasing      *)
(* order and a listing answers in id order.  A listing is paged: the       *)
(* server cuts it into pages of ps entries and a page token is the number  *)
(* of entries already served.                                              *)
(*                                                                         *)
(* Every operator below that issues remote requests takes the log of the   *)
(* requests issued so far in the call, each with its answer, and the set   *)
(* fails of the positions in that log whose request raises HttpError.      *)
(***************************************************************************)
MaxIds == 6

MaxPageSize == 2

MaxFailAt == 4

FolderMime == "application/vnd.google-apps.folder"

JpegMime == "image/jpeg"

Names == {"a", "b"}

RootId == 1

Max(S) == CHOOSE m \in S : \A x \in S : x <= m

Min(S) == CHOOSE m \in S : \A x \in S : m <= x

RECURSIVE Ascending(_)
Ascending(S) ==
    IF S = {} THEN << >>
    ELSE << Min(S) >> \o Ascending(S \ {Min(S)})

Range(f) == { f[i] : i \in DOMAIN f }

\* whether the request about to be logged is one that raises HttpError
Fails(log, fails) == (Len(log) + 1) \in fails


\* the entries a files().list query matches, as files(id, name)
Matching(rem, q) ==
    LET ids == { i \in DOMAIN rem :
                    /\ q.parent \in rem[i].parents
                    /\ q.mimeTypes # << >> => rem[i].mimeType \in Range(q.mimeTypes) }
        asc == Ascending(ids)
    IN  [k \in DOMAIN asc |-> [id |-> asc[k], name |-> rem[asc[k]].name]]

\* the answer to one files().list request
execute_list(rem, request, ps) ==
    LET all  == Matching(rem, request.q)
        from == IF request.pageToken = None THEN 0 ELSE request.pageToken[1]
        upto == IF from + ps < Len(all) THEN from + ps ELSE Len(all)
    IN  [files |-> SubSeq(all, from + 1, upto),
         nextPageToken |-> IF upto < Len(all) THEN Some(upto) ELSE None]

(***************************************************************************)
(* DriveFolder.list_files                                                  *)
(***************************************************************************)
\* the query string of lines 133-138, by its content
list_query(self_id, mimetypes) ==
    [parent |-> self_id, trashed |-> FALSE, mimeTypes |-> mimetypes]

\* the while True loop of lines 140-154, inside the try
RECURSIVE list_loop(_, _, _, _, _, _, _)
list_loop(rem, query, page_token, files, log, fails, ps) ==
    LET request == [api |-> "files.list", q |-> query, pageToken |-> page_token]
    IN  IF Fails(log, fails)
        THEN [files |-> None, reqs |-> Append(log, Failed(request))]
        ELSE LET result == execute_list(rem, request, ps)
                 log2   == Append(log, Exchange(request, result))
                 files2 == files \o result.files
             IN  IF result.nextPageToken = None
                 THEN [files |-> Some(files2), reqs |-> log2]
                 ELSE list_loop(rem, query, result.nextPageToken, files2,
                                log2, fails, ps)

\* a listing that stops after its first page
list_files_first_page(rem, self_id, mimetypes, log, fails, ps) ==
    LET request == [api |-> "files.list", q |-> list_query(self_id, mimetypes),
                    pageToken |-> None]
    IN  IF Fails(log, fails)
        THEN [files |-> None, reqs |-> Append(log, Failed(request))]
        ELSE LET result == execute_list(rem, request, ps)
             IN  [files |-> Some(result.files),
                  reqs |-> Append(log, Exchange(request, result))]

list_files(rem, self_id, mimetypes, log, fails, ps) ==
    list_loop(rem, list_query(self_id, mimetypes), None, << >>, log, fails, ps)

(***************************************************************************)
(* DriveFolder.download_file: the chunked get_media transfer is one        *)
(* request here, which fails when any of its chunks would.                 *)
(***************************************************************************)
download_file(rem, file_id, log, fails) ==
    LET request == [api |-> "files.get_media", fileId |-> file_id]
    IN  IF Fails(log, fails) \/ file_id \notin DOMAIN rem
        THEN [file |-> None, reqs |-> Append(log, Failed(request))]
        ELSE [file |-> Some([bytes_of |-> file_id]),
              reqs |-> Append(log, Exchange(request, [bytes_of |-> file_id]))]

(***************************************************************************)
(* DriveFolder.download_files                                              *)
(***************************************************************************)
\* a loop that stops at the first failed download
RECURSIVE download_loop_abort(_, _, _, _, _, _)
download_loop_abort(rem, listed, k, files, log, fails) ==
    IF k > Len(listed) THEN [ret |-> Return(files), reqs |-> log]
    ELSE LET got == download_file(rem, listed[k].id, log, fails)
         IN  IF got.file = None THEN [ret |-> Return(files), reqs |-> got.reqs]
             ELSE download_loop_abort(rem, listed, k + 1,
                     Append(files, << listed[k].name, got.file >>),
                     got.reqs, fails)

\* the for loop of lines 198-201
RECURSIVE download_loop(_, _, _, _, _, _)
download_loop(rem, listed, k, files, log, fails) ==
    IF k > Len(listed) THEN [ret |-> Return(files), reqs |-> log]
    ELSE LET got == download_file(rem, listed[k].id, log, fails)
         IN  download_loop(rem, listed, k + 1,
                           Append(files, << listed[k].name, got.file >>),
                           got.reqs, fails)

\* for file in self.list_files(mimetypes): iterating None raises TypeError
download_files(rem, self_id, mimetypes, fails, ps) ==
    LET listed == list_files(rem, self_id, mimetypes, << >>, fails, ps)
    IN  IF listed.files = None
        THEN [ret |-> Raise("TypeError"), reqs |-> listed.reqs]
        ELSE download_loop(rem, listed.files[1], 1, << >>, listed.reqs, fails)

(***************************************************************************)
(* DriveFolder.upload_file and upload_files.  A local path is the base     *)
(* name of the file; every uploaded file is an image.                      *)
(***************************************************************************)
NextId(rem) == Max(DOMAIN rem) + 1

Extend(f, k, v) == [x \in (DOMAIN f) \cup {k} |-> IF x = k THEN v ELSE f[x]]

upload_file(rem, self_id, file_path, new_name, log, fails) ==
    LET name == IF new_name # "" THEN new_name ELSE file_path
        file_metadata == [name |-> name, parents |-> {self_id}]
        request == [api |-> "files.create", body |-> file_metadata]
    IN  IF Fails(log, fails) \/ self_id \notin DOMAIN rem
        THEN [id |-> None, rem |-> rem,
              reqs |-> Append(log, Failed(request))]
        ELSE [id |-> Some(NextId(rem)),
              rem |-> Extend(rem, NextId(rem),
                             [name |-> name, mimeType |-> JpegMime,
                              parents |-> {self_id}]),
              reqs |-> Append(log, Exchange(request, [id |-> NextId(rem)]))]

\* ids = [self.upload_file(file_path) for file_path in file_paths]
RECURSIVE upload_files_from(_, _, _, _, _, _, _)
upload_files_from(rem, self_id, file_paths, k, ids, log, fails) ==
    IF k > Len(file_paths) THEN [ret |-> Return(ids), rem |-> rem, reqs |-> log]
    ELSE LET up == upload_file(rem, self_id, file_paths[k], "", log, fails)
         IN  upload_files_from(up.rem, self_id, file_paths, k + 1,
                               Append(ids, up.id), up.reqs, fails)

upload_files(rem, self_id, file_paths, fails) ==
    upload_files_from(rem, self_id, file_paths, 1, << >>, << >>, fails)

(***************************************************************************)
(* DriveFolder.move_file_from_folder.  A file without parents has no       *)
(* 'parents' field in the answer, so file.get('parents') is None and the   *)
(* membership test raises TypeError.                                       *)
(***************************************************************************)
\* the update is sent without looking at the parents
move_file_unchecked(rem, self_id, file_id, new_folder_id, fails) ==
    LET update == [api |-> "files.update", fileId |-> file_id,
                   addParents |-> new_folder_id, removeParents |-> self_id]
    IN  IF Fails(<< >>, fails) \/ file_id \notin DOMAIN rem
        THEN [ret |-> Return(None), rem |-> rem,
              reqs |-> << Failed(update) >>]
        ELSE LET parents == (rem[file_id].parents \ {self_id}) \cup {new_folder_id}
             IN  [ret |-> Return(Some(parents)),
                  rem |-> [rem EXCEPT ![file_id].parents = parents],
                  reqs |-> << Exchange(update, [id |-> file_id, parents |-> parents]) >>]

move_file_from_folder(rem, self_id, file_id, new_folder_id, fails) ==
    LET get == [api |-> "files.get", fileId |-> file_id, fields |-> "parents"]
        update == [api |-> "files.update", fileId |-> file_id,
                   addParents |-> new_folder_id, removeParents |-> self_id]
    IN  IF Fails(<< >>, fails) \/ file_id \notin DOMAIN rem
        THEN [ret |-> Return(None), rem |-> rem,
              reqs |-> << Failed(get) >>]
        ELSE
        LET fetched == IF rem[file_id].parents = {} THEN None
                       ELSE Some(rem[file_id].parents)
            log1    == << Exchange(get, [parents |-> fetched]) >>
        IN  IF fetched = None
            THEN [ret |-> Raise("TypeError"), rem |-> rem, reqs |-> log1]
            ELSE IF self_id \notin fetched[1]
            THEN [ret |-> Raise("AssertionError"), rem |-> rem, reqs |-> log1]
            ELSE IF Fails(log1, fails) \/ new_folder_id \notin DOMAIN rem
            THEN [ret |-> Return(None), rem |-> rem,
                  reqs |-> Append(log1, Failed(update))]
            ELSE LET parents == (fetched[1] \ {self_id}) \cup {new_folder_id}
                 IN  [ret |-> Return(Some(parents)),
                      rem |-> [rem EXCEPT ![file_id].parents = parents],
                      reqs |-> Append(log1,
                                  Exchange(update, [id |-> file_id,
                                                    parents |-> parents]))]

(***************************************************************************)
(* DriveFolder.__init__.  nodes is the heap of DriveFolder objects: an     *)
(* object is its position in nodes, and parent is a position or None.  The *)
(* construction state st carries the heap, the request log, ok (FALSE once *)
(* the iteration over a failed listing has raised TypeError) and self (the *)
(* object just built).                                                     *)
(***************************************************************************)
RECURSIVE DriveFolder_init(_, _, _, _, _, _, _)
RECURSIVE init_children(_, _, _, _, _, _, _)

\* self.children[f["name"]] = <the child built>, then the rest of the loop;
\* a child whose construction raised ends the loop
init_register(rem, self, folders, k, child, fails, ps) ==
    IF ~child.ok THEN child
    ELSE init_children(rem, self, folders, k + 1,
            [child EXCEPT !.nodes[self].children =
                              Extend(@, folders[k].name, child.self)],
            fails, ps)

\* for f in folders: self.children[f["name"]] = DriveFolder(f["id"], f["name"], self)
init_children(rem, self, folders, k, st, fails, ps) ==
    IF k > Len(folders) THEN [st EXCEPT !.self = self]
    ELSE init_register(rem, self, folders, k,
            DriveFolder_init(rem, folders[k].id, folders[k].name, Some(self),
                             st, fails, ps),
            fails, ps)

\* for f in folders: iterating None raises TypeError
init_listed(rem, self, heap, listed, fails, ps) ==
    IF listed.files = None
    THEN [nodes |-> heap, reqs |-> listed.reqs, ok |-> FALSE, self |-> self]
    ELSE init_children(rem, self, listed.files[1], 1,
                       [nodes |-> heap, reqs |-> listed.reqs,
                        ok |-> TRUE, self |-> self],
                       fails, ps)

DriveFolder_init(rem, folder_id, name, parent, st, fails, ps) ==
    init_listed(rem, Len(st.nodes) + 1,
                Append(st.nodes, [id |-> folder_id, name |-> name,
                                  parent |-> parent, children |-> EmptyMap]),
                list_files(rem, folder_id, << FolderMime >>, st.reqs, fails, ps),
                fails, ps)

(***************************************************************************)
(* DriveFolder.create_subfolder                                            *)
(***************************************************************************)
\* the new node is returned and never registered
create_registered_nowhere(rem2, nds, self, name, built) ==
    IF ~built.ok
    THEN [ret |-> Raise("TypeError"), rem |-> rem2, nodes |-> nds,
          reqs |-> built.reqs]
    ELSE [ret |-> Return(Some(built.self)), rem |-> rem2,
          nodes |-> built.nodes, reqs |-> built.reqs]

\* the new node is registered in the first object of the heap
create_registered_at_top(rem2, nds, self, name, built) ==
    IF ~built.ok
    THEN [ret |-> Raise("TypeError"), rem |-> rem2, nodes |-> nds,
          reqs |-> built.reqs]
    ELSE [ret |-> Return(Some(built.self)), rem |-> rem2,
          nodes |-> [built.nodes EXCEPT ![1].children =
                        Extend(@, name, built.self)],
          reqs |-> built.reqs]

\* the else branch, lines 324-326: the constructor may raise; if it does not,
\* the node is registered and returned
create_registered(rem2, nds, self, name, built) ==
    IF ~built.ok
    THEN [ret |-> Raise("TypeError"), rem |-> rem2, nodes |-> nds,
          reqs |-> built.reqs]
    ELSE [ret |-> Return(Some(built.self)), rem |-> rem2,
          nodes |-> [built.nodes EXCEPT ![self].children =
                        Extend(@, name, built.self)],
          reqs |-> built.reqs]

\* the folder the create request makes, and the constructor call on it
create_built(rem, nds, self, name, request, new_id, fails, ps) ==
    create_registered(
        Extend(rem, new_id, [name |-> name, mimeType |-> FolderMime,
                             parents |-> {nds[self].id}]),
        nds, self, name,
        DriveFolder_init(
            Extend(rem, new_id, [name |-> name, mimeType |-> FolderMime,
                                 parents |-> {nds[self].id}]),
            new_id, name, Some(self),
            [nodes |-> nds, reqs |-> << Exchange(request, [id |-> new_id]) >>,
             ok |-> TRUE, self |-> self],
            fails, ps))

create_subfolder(rem, nds, self, name, fails, ps) ==
    LET file_metadata == [name |-> name, mimeType |-> FolderMime,
                          parents |-> {nds[self].id}]
        request == [api |-> "files.create", body |-> file_metadata]
    IN  IF Fails(<< >>, fails) \/ nds[self].id \notin DOMAIN rem
        THEN [ret |-> Return(None), rem |-> rem, nodes |-> nds,
              reqs |-> << Failed(request) >>]
        ELSE create_built(rem, nds, self, name, request, NextId(rem), fails, ps)

(***************************************************************************)
(* The DriveFolder operations as actions.  Init draws the remote Drive: a  *)
(* root folder, folder "a" in it, a third entry and a file that may have   *)
(* no parent.  The program first builds its DriveFolder tree, then calls   *)
(* the methods of any object it holds.  Each action draws the page size ps *)
(* the server uses and the set fails of the requests of the call that      *)
(* raise HttpError.  A call that stops at its first failed request draws   *)
(* one failing position at most (FirstFail); the batch calls draw any set. *)
(*                                                                         *)
(* list_files, download_file and download_files change neither the remote  *)
(* Drive nor the objects, so whatever follows one of them could have been  *)
(* called in its place: a behaviour ends with the first of them, which     *)
(* loses no reachable (remote, nodes, call, ret, reqs).                    *)
(***************************************************************************)
File(name, mimeType, parents) ==
    [name |-> name, mimeType |-> mimeType, parents |-> parents]

InitRemotes ==
    { << File("root", FolderMime, {}),
         File("a", FolderMime, {RootId}),
         File(n3, m3, {p3}),
         File("b", JpegMime, p4) >> :
        n3 \in Names, m3 \in {FolderMime, JpegMime}, p3 \in {RootId, 2},
        p4 \in { {RootId}, {2}, {} } }

FailSets(n) == SUBSET (1..n)

FirstFail(n) == { {} } \cup { {k} : k \in 1..n }

ReadOnlyOps == {"list_files", "download_file", "download_files"}

Running == call.op \notin ReadOnlyOps

PageSizes == 1..MaxPageSize

MimeFilters == { << >>, << JpegMime >> }

FileIds == 1..MaxIds

NoSheet == UNCHANGED sheets

Init ==
    /\ remote \in InitRemotes
    /\ nodes = << >>
    /\ call = [op |-> "none"]
    /\ ret = Pending
    /\ reqs = << >>
    /\ sheets = EmptyMap

\* the outcome of DriveFolder(folder_id, "top"): the tree, or TypeError and
\* no object
Constructed(folder_id, built) ==
    /\ call' = [op |-> "DriveFolder", folder_id |-> folder_id]
    /\ reqs' = built.reqs
    /\ IF built.ok
       THEN nodes' = built.nodes /\ ret' = Return(built.self)
       ELSE nodes' = nodes /\ ret' = Raise("TypeError")
    /\ UNCHANGED remote
    /\ NoSheet

Construct ==
    /\ Running
    /\ nodes = << >>
    /\ \E folder_id \in {RootId, 2}, fails \in FirstFail(MaxFailAt),
          ps \in PageSizes :
        Constructed(folder_id,
            DriveFolder_init(remote, folder_id, "top", None,
                [nodes |-> << >>, reqs |-> << >>, ok |-> TRUE, self |-> 0],
                fails, ps))

ListFiles ==
    /\ Running
    /\ \E self \in DOMAIN nodes, mimetypes \in MimeFilters,
          fails \in FirstFail(MaxFailAt), ps \in PageSizes :
        LET out == list_files(remote, nodes[self].id, mimetypes, << >>, fails, ps)
        IN  /\ call' = [op |-> "list_files", self |-> self, mimetypes |-> mimetypes]
            /\ ret' = Return(out.files)
            /\ reqs' = out.reqs
            /\ UNCHANGED << remote, nodes >>
            /\ NoSheet

DownloadFile ==
    /\ Running
    /\ \E self \in DOMAIN nodes, file_id \in FileIds, fails \in FirstFail(1) :
        LET out == download_file(remote, file_id, << >>, fails)
        IN  /\ call' = [op |-> "download_file", self |-> self, file_id |-> file_id]
            /\ ret' = Return(out.file)
            /\ reqs' = out.reqs
            /\ UNCHANGED << remote, nodes >>
            /\ NoSheet

DownloadFiles ==
    /\ Running
    /\ \E self \in DOMAIN nodes, mimetypes \in MimeFilters,
          fails \in FailSets(MaxFailAt), ps \in PageSizes :
        LET out == download_files(remote, nodes[self].id, mimetypes, fails, ps)
        IN  /\ call' = [op |-> "download_files", self |-> self,
                        mimetypes |-> mimetypes]
            /\ ret' = out.ret
            /\ reqs' = out.reqs
            /\ UNCHANGED << remote, nodes >>
            /\ NoSheet

UploadFile ==
    /\ Running
    /\ NextId(remote) <= MaxIds
    /\ \E self \in DOMAIN nodes, file_path \in Names, new_name \in {"", "b"},
          fails \in FirstFail(1) :
        LET out == upload_file(remote, nodes[self].id, file_path, new_name,
                               << >>, fails)
        IN  /\ call' = [op |-> "upload_file", self |-> self,
                        file_path |-> file_path, new_name |-> new_name]
            /\ ret' = Return(out.id)
            /\ reqs' = out.reqs
            /\ remote' = out.rem
            /\ UNCHANGED nodes
            /\ NoSheet

UploadFiles ==
    /\ Running
    /\ \E self \in DOMAIN nodes, fails \in FailSets(2),
          file_paths \in { << >>, << "a" >>, << "a", "b" >> } :
        /\ NextId(remote) + Len(file_paths) - 1 <= MaxIds
        /\ LET out == upload_files(remote, nodes[self].id, file_paths, fails)
           IN  /\ call' = [op |-> "upload_files", self |-> self,
                           file_paths |-> file_paths]
               /\ ret' = out.ret
               /\ reqs' = out.reqs
               /\ remote' = out.rem
               /\ UNCHANGED nodes
               /\ NoSheet

\* the files moved are not folders
MoveFileFromFolder ==
    /\ Running
    /\ \E self \in DOMAIN nodes, new_folder \in DOMAIN nodes,
          fails \in FirstFail(2),
          file_id \in { i \in FileIds :
                        i \in DOMAIN remote => remote[i].mimeType # FolderMime } :
        LET out == move_file_from_folder(remote, nodes[self].id, file_id,
                                         nodes[new_folder].id, fails)
        IN  /\ call' = [op |-> "move_file_from_folder", self |-> self,
                        file_id |-> file_id, new_folder |-> new_folder,
                        before |-> IF file_id \in DOMAIN remote
                                   THEN Some(remote[file_id].parents) ELSE None]
            /\ ret' = out.ret
            /\ reqs' = out.reqs
            /\ remote' = out.rem
            /\ UNCHANGED nodes
            /\ NoSheet

Created(self, name, out) ==
    /\ call' = [op |-> "create_subfolder", self |-> self, name |-> name,
                children_before |-> nodes[self].children,
                heap_before |-> Len(nodes)]
    /\ ret' = out.ret
    /\ reqs' = out.reqs
    /\ remote' = out.rem
    /\ nodes' = out.nodes
    /\ NoSheet

CreateSubfolder ==
    /\ Running
    /\ NextId(remote) <= MaxIds
    /\ \E self \in DOMAIN nodes, name \in Names, fails \in FirstFail(2),
          ps \in PageSizes :
        Created(self, name, create_subfolder(remote, nodes, self, name, fails, ps))

\* the tree and the queries on it
Next ==
    \/ Construct
    \/ CreateSubfolder
    \/ ListFiles
    \/ DownloadFile
    \/ DownloadFiles

Spec == Init /\ [][Next]_vars

\* the tree and the calls that change the remote Drive
TransferNext ==
    \/ Construct
    \/ UploadFile
    \/ UploadFiles
    \/ MoveFileFromFolder

TransferSpec == Init /\ [][TransferNext]_vars

(***************************************************************************)
(* Properties of the DriveFolder operations.                               *)
(***************************************************************************)
\* the 'files' entries of the first n answers of the log, in order
RECURSIVE PagesConcat(_, _)
PagesConcat(log, n) ==
    IF n = 0 THEN << >>
    ELSE PagesConcat(log, n - 1) \o log[n].response.files

ListRequests(log) == { k \in DOMAIN log : log[k].request.api = "files.list" }

\* C6: when no remote call fails, list_files returns the concatenation, in
\* page order, of the 'files' of every page: the first request carries no
\* page token, each later one the previous answer's nextPageToken, the last
\* answer is the first without one, and the result is the whole remote
\* listing, nothing dropped or repeated.
C6_ListMergesPages ==
    (Done("list_files") /\ \A k \in DOMAIN reqs : reqs[k].ok) =>
        LET q == list_query(nodes[call.self].id, call.mimetypes)
        IN  /\ Len(reqs) >= 1
            /\ \A k \in DOMAIN reqs :
                  /\ reqs[k].request.api = "files.list"
                  /\ reqs[k].request.q = q
            /\ reqs[1].request.pageToken = None
            /\ \A k \in 1..(Len(reqs) - 1) :
                  /\ reqs[k].response.nextPageToken # None
                  /\ reqs[k + 1].request.pageToken = reqs[k].response.nextPageToken
            /\ reqs[Len(reqs)].response.nextPageToken = None
            /\ ret = Return(Some(PagesConcat(reqs, Len(reqs))))
            /\ ret.value[1] = Matching(remote, q)

C6_Witness ==
    /\ Done("list_files")
    /\ Len(reqs) = 3
    /\ \A k \in DOMAIN reqs : reqs[k].ok
    /\ Len(ret.value[1]) = 3

\* C7: download_files returns one (name, buffer) entry per file list_files
\* returned, in the same order; a failed download gives (name, None) and the
\* files after it are still downloaded.
C7_DownloadsEveryListedFile ==
    Done("download_files") =>
        LET nlist == Cardinality(ListRequests(reqs))
        IN  (\A k \in 1..nlist : reqs[k].ok) =>
              LET listed == PagesConcat(reqs, nlist)
              IN  /\ ret.kind = "return"
                  /\ Len(ret.value) = Len(listed)
                  /\ Len(reqs) = nlist + Len(listed)
                  /\ \A k \in DOMAIN listed :
                        /\ ret.value[k][1] = listed[k].name
                        /\ reqs[nlist + k].request =
                              [api |-> "files.get_media", fileId |-> listed[k].id]
                        /\ ret.value[k][2] =
                              IF reqs[nlist + k].ok
                              THEN Some([bytes_of |-> listed[k].id])
                              ELSE None

C7_Witness ==
    /\ Done("download_files")
    /\ ret.kind = "return"
    /\ Len(ret.value) = 3
    /\ ret.value[1][2] = None
    /\ ret.value[2][2] # None
    /\ ret.value[3][2] # None

\* C8: after create_subfolder(name) whose create request succeeds, children
\* maps name to the newly constructed node (replacing a prior entry) and that
\* node is returned; when the create request fails, the call returns None and
\* children is unchanged.
C8_CreateRegistersChild ==
    Done("create_subfolder") =>
        IF reqs[1].ok
        THEN /\ ret.kind = "return"
             /\ ret.value # None
             /\ ret.value[1] \in (call.heap_before + 1)..Len(nodes)
             /\ nodes[ret.value[1]].id = reqs[1].response.id
             /\ nodes[ret.value[1]].name = call.name
             /\ nodes[call.self].children =
                   Extend(call.children_before, call.name, ret.value[1])
        ELSE /\ ret = Return(None)
             /\ nodes[call.self].children = call.children_before

\* C9: move_file_from_folder sends the parent add/remove update only after
\* it fetched the file's parents and found this folder's id among them; when
\* the fetched parents do not include it the call raises (AssertionError, or
\* TypeError when the answer carries no parents), sends no update, and the
\* remote Drive is unchanged.
C9_MoveUpdatesOnlyAfterCheck ==
    [][ call'.op = "move_file_from_folder" =>
          LET self_id == nodes[call'.self].id
              log     == reqs'
          IN  /\ Len(log) >= 1
              /\ log[1].request = [api |-> "files.get",
                                   fileId |-> call'.file_id,
                                   fields |-> "parents"]
              /\ \A k \in DOMAIN log :
                    log[k].request.api = "files.update" =>
                        /\ k = 2
                        /\ log[1].ok
                        /\ log[1].response.parents # None
                        /\ self_id \in log[1].response.parents[1]
              /\ (log[1].ok /\ (\/ log[1].response.parents = None
                                \/ self_id \notin log[1].response.parents[1])) =>
                    /\ ret' = Raise(IF log[1].response.parents = None
                                    THEN "TypeError" ELSE "AssertionError")
                    /\ Len(log) = 1
                    /\ remote' = remote
    ]_vars

C9_Witness ==
    /\ Done("move_file_from_folder")
    /\ ret = Raise("AssertionError")
    /\ Len(reqs) = 1
    /\ reqs[1].ok
    /\ nodes[call.self].id \notin reqs[1].response.parents[1]

\* C10: whenever a remote call made during a public operation fails with a
\* remote error, the operation returns (a sentinel) and no exception
\* propagates out of it.
C10_RemoteErrorNeverPropagates ==
    (call.op # "none" /\ \E k \in DOMAIN reqs : ~reqs[k].ok) =>
        ret.kind = "return"

\* C11: after construction and any sequence of create_subfolder calls, every
\* entry (key, child) of every node's children has child.parent equal to that
\* node and child.name equal to key, and no node is in the children of two
\* different nodes.
C11_ChildrenMatchParents ==
    \A p \in DOMAIN nodes :
        \A key \in DOMAIN nodes[p].children :
            LET child == nodes[p].children[key]
            IN  /\ child \in DOMAIN nodes
                /\ nodes[child].parent = Some(p)
                /\ nodes[child].name = key
                /\ \A q \in DOMAIN nodes :
                      q # p => child \notin Range(nodes[q].children)

C11_Witness ==
    /\ Done("create_subfolder")
    /\ ret.kind = "return"
    /\ ret.value # None
    /\ nodes[call.self].parent # None
    /\ nodes[call.self].id = NextId(remote) - 2
    /\ nodes[call.self].children[call.name] = ret.value[1]
    /\ nodes[nodes[call.self].parent[1]].children[nodes[call.self].name] = call.self

====
